---- MODULE Spec2Model ----
(***************************************************************************)
(* Model of the two maintenance scripts of the property-listing site:      *)
(*   scripts/process_project_images.py  (the image watermarker)            *)
(*   scripts/sync_project_assets.py     (the asset synchronizer)           *)
(*                                                                         *)
(* A Python str is modelled as a sequence of one-character strings, a      *)
(* pathlib.Path as the str of its normalised form, so that the name tests, *)
(* the URL escaping and the catalog path decoding are computed character   *)
(* by character as the code computes them.                                 *)
(***************************************************************************)
EXTENDS Integers, Sequences, FiniteSets, TLC

(***************************************************************************)
(* str and pathlib helpers                                                 *)
(***************************************************************************)

\* str.lower() on the letters the model uses
UpperToLower ==
    [c \in {"A","B","C","D","E","F","G","H","I","J","K","L","M","N","O","P",
            "Q","R","S","T","U","V","W","X","Y","Z"} |->
        CASE c = "A" -> "a" [] c = "B" -> "b" [] c = "C" -> "c" [] c = "D" -> "d"
          [] c = "E" -> "e" [] c = "F" -> "f" [] c = "G" -> "g" [] c = "H" -> "h"
          [] c = "I" -> "i" [] c = "J" -> "j" [] c = "K" -> "k" [] c = "L" -> "l"
          [] c = "M" -> "m" [] c = "N" -> "n" [] c = "O" -> "o" [] c = "P" -> "p"
          [] c = "Q" -> "q" [] c = "R" -> "r" [] c = "S" -> "s" [] c = "T" -> "t"
          [] c = "U" -> "u" [] c = "V" -> "v" [] c = "W" -> "w" [] c = "X" -> "x"
          [] c = "Y" -> "y" [] c = "Z" -> "z"]

LowerChar(c) == IF c \in DOMAIN UpperToLower THEN UpperToLower[c] ELSE c

StrLower(s) == [i \in 1..Len(s) |-> LowerChar(s[i])]

Digits == {"0","1","2","3","4","5","6","7","8","9"}

StartsWith(s, p) == Len(p) <= Len(s) /\ SubSeq(s, 1, Len(p)) = p

EndsWith(s, p) == Len(p) <= Len(s) /\ SubSeq(s, Len(s) - Len(p) + 1, Len(s)) = p

\* token in name
StrContains(s, t) == \E i \in 0..(Len(s) - Len(t)) : SubSeq(s, i + 1, i + Len(t)) = t

\* str.replace(old, new): leftmost non-overlapping occurrences
RECURSIVE StrReplace(_, _, _)
StrReplace(s, old, new) ==
    IF Len(s) < Len(old) THEN s
    ELSE IF SubSeq(s, 1, Len(old)) = old
         THEN new \o StrReplace(SubSeq(s, Len(old) + 1, Len(s)), old, new)
         ELSE <<s[1]>> \o StrReplace(Tail(s), old, new)

\* str.strip() is non-empty: some character is not a blank
StrNonBlank(s) == \E i \in 1..Len(s) : s[i] # " "

\* str.strip()
RECURSIVE StrStrip(_)
StrStrip(s) ==
    IF s = <<>> THEN s
    ELSE IF s[1] = " " THEN StrStrip(Tail(s))
    ELSE IF s[Len(s)] = " " THEN StrStrip(SubSeq(s, 1, Len(s) - 1))
    ELSE s

\* str.rfind(c) + 1 (0 when absent)
LastIndexOf(s, c) ==
    LET I == {i \in 1..Len(s) : s[i] = c}
    IN IF I = {} THEN 0 ELSE CHOOSE i \in I : \A j \in I : j <= i

\* Path(s): "." components and repeated or trailing slashes are dropped
RECURSIVE PathOf(_)
PathOf(s) ==
    IF StartsWith(s, <<".", "/">>) THEN PathOf(SubSeq(s, 3, Len(s)))
    ELSE IF StrContains(s, <<"/", "/">>) THEN PathOf(StrReplace(s, <<"/", "/">>, <<"/">>))
    ELSE IF StrContains(s, <<"/", ".", "/">>) THEN PathOf(StrReplace(s, <<"/", ".", "/">>, <<"/">>))
    ELSE IF Len(s) > 1 /\ s[Len(s)] = "/" THEN PathOf(SubSeq(s, 1, Len(s) - 1))
    ELSE IF s = <<>> THEN <<".">>
    ELSE s

\* Path.name
PathName(p) == SubSeq(p, LastIndexOf(p, "/") + 1, Len(p))

\* Path.suffix: from the last dot of the name, unless that dot is first or last
PathSuffix(p) ==
    LET name == PathName(p)
        i == LastIndexOf(name, ".")
    IN IF 1 < i /\ i < Len(name) THEN SubSeq(name, i, Len(name)) ELSE <<>>

\* Path.stem
PathStem(p) ==
    LET name == PathName(p)
        i == LastIndexOf(name, ".")
    IN IF 1 < i /\ i < Len(name) THEN SubSeq(name, 1, i - 1) ELSE name

\* Path.parent of a relative path
PathParent(p) ==
    LET i == LastIndexOf(p, "/")
    IN IF i = 0 THEN <<".">> ELSE SubSeq(p, 1, i - 1)

\* Path.parents of a relative path
PathParents(p) ==
    {SubSeq(p, 1, i - 1) : i \in {j \in 1..Len(p) : p[j] = "/"}} \cup {<<".">>}

\* Path.relative_to(base), base one of the path's parents
PathRelativeTo(p, base) ==
    IF base = <<".">> THEN p ELSE SubSeq(p, Len(base) + 2, Len(p))

\* base / child
PathJoin(base, child) == IF base = <<".">> THEN child ELSE base \o <<"/">> \o child

\* p lies under directory d
PathUnder(p, d) == d \in PathParents(p)

(***************************************************************************)
(* JSON values: json.loads / json.dumps                                    *)
(* A dict is the sequence of its <<key, value>> members in insertion       *)
(* order (Python dicts and json keep it).                                  *)
(***************************************************************************)

JNone == [t |-> "none"]

JStr(s) == [t |-> "str", v |-> s]

JNum(n) == [t |-> "num", v |-> n]

JList(l) == [t |-> "list", v |-> l]

JDict(members) == [t |-> "dict", v |-> members]

DictHas(d, k) == \E i \in 1..Len(d.v) : d.v[i][1] = k

\* dict.get(k): None when absent
DictGet(d, k) ==
    IF DictHas(d, k)
    THEN d.v[CHOOSE i \in 1..Len(d.v) : d.v[i][1] = k][2]
    ELSE JNone

\* dict.get(k, default)
DictGetOr(d, k, default) == IF DictHas(d, k) THEN DictGet(d, k) ELSE default

\* d[k] = val: in place when the key exists, appended otherwise
DictSet(d, k, val) ==
    IF DictHas(d, k)
    THEN JDict([i \in 1..Len(d.v) |-> IF d.v[i][1] = k THEN <<k, val>> ELSE d.v[i]])
    ELSE JDict(Append(d.v, <<k, val>>))

(***************************************************************************)
(* The image watermarker: scripts/process_project_images.py                *)
(***************************************************************************)

SUPPORTED_EXT == {<<".","j","p","g">>, <<".","j","p","e","g">>, <<".","p","n","g">>,
                  <<".","w","e","b","p">>}

SKIP_NAME_TOKENS == {<<"_","w","m">>, <<"w","a","t","e","r","m","a","r","k">>,
                     <<"l","o","g","o">>}

\* The state names a path by its text as one string; Text gives its characters.
Text ==
         "Property Listing" :> 
           <<"P","r","o","p","e","r","t","y"," ","L","i","s","t","i","n","g">>
      @@ "Property Listing/a.jpg" :> 
           <<"P","r","o","p","e","r","t","y"," ","L","i","s","t","i","n","g","/","a",".","j","p","g">>
      @@ "Property Listing/sub/b c.png" :> 
           <<"P","r","o","p","e","r","t","y"," ","L","i","s","t","i","n","g","/","s","u","b","/","b"," ","c",".","p","n","g">>
      @@ "Property Listing/Logo.png" :> 
           <<"P","r","o","p","e","r","t","y"," ","L","i","s","t","i","n","g","/","L","o","g","o",".","p","n","g">>
      @@ "Property Listing/logo-main-640w.JPG" :> 
           <<"P","r","o","p","e","r","t","y"," ","L","i","s","t","i","n","g","/","l","o","g","o","-","m","a","i","n","-","6","4","0","w",".","J","P","G">>
      @@ "Property Listing/n.txt" :> 
           <<"P","r","o","p","e","r","t","y"," ","L","i","s","t","i","n","g","/","n",".","t","x","t">>
      @@ "Property Listing/sub" :> 
           <<"P","r","o","p","e","r","t","y"," ","L","i","s","t","i","n","g","/","s","u","b">>
      @@ "Property Listing/gone.jpg" :> 
           <<"P","r","o","p","e","r","t","y"," ","L","i","s","t","i","n","g","/","g","o","n","e",".","j","p","g">>
      @@ "other/z.jpg" :> 
           <<"o","t","h","e","r","/","z",".","j","p","g">>
      @@ "Property Listing/Le Conde" :> 
           <<"P","r","o","p","e","r","t","y"," ","L","i","s","t","i","n","g","/","L","e"," ","C","o","n","d","e">>
      @@ "Property Listing/Le Conde/main.jpg" :> 
           <<"P","r","o","p","e","r","t","y"," ","L","i","s","t","i","n","g","/","L","e"," ","C","o","n","d","e","/","m","a","i","n",".","j","p","g">>
      @@ "Property Listing/Le Conde/a.jpg" :> 
           <<"P","r","o","p","e","r","t","y"," ","L","i","s","t","i","n","g","/","L","e"," ","C","o","n","d","e","/","a",".","j","p","g">>
      @@ "Property Listing/Le Conde/a.webp" :> 
           <<"P","r","o","p","e","r","t","y"," ","L","i","s","t","i","n","g","/","L","e"," ","C","o","n","d","e","/","a",".","w","e","b","p">>
      @@ "Property Listing/Le Conde/c d.PNG" :> 
           <<"P","r","o","p","e","r","t","y"," ","L","i","s","t","i","n","g","/","L","e"," ","C","o","n","d","e","/","c"," ","d",".","P","N","G">>
      @@ "Property Listing/Le Conde/notes.txt" :> 
           <<"P","r","o","p","e","r","t","y"," ","L","i","s","t","i","n","g","/","L","e"," ","C","o","n","d","e","/","n","o","t","e","s",".","t","x","t">>
      @@ "Property Listing/Le Conde/Floor Plan" :> 
           <<"P","r","o","p","e","r","t","y"," ","L","i","s","t","i","n","g","/","L","e"," ","C","o","n","d","e","/","F","l","o","o","r"," ","P","l","a","n">>
      @@ "Property Listing/Le Conde/Floor Plan/p.pdf" :> 
           <<"P","r","o","p","e","r","t","y"," ","L","i","s","t","i","n","g","/","L","e"," ","C","o","n","d","e","/","F","l","o","o","r"," ","P","l","a","n","/","p",".","p","d","f">>
      @@ "Property Listing/Le Conde/Floorplans" :> 
           <<"P","r","o","p","e","r","t","y"," ","L","i","s","t","i","n","g","/","L","e"," ","C","o","n","d","e","/","F","l","o","o","r","p","l","a","n","s">>
      @@ "Property Listing/Le Conde/Floorplans/q.jpg" :> 
           <<"P","r","o","p","e","r","t","y"," ","L","i","s","t","i","n","g","/","L","e"," ","C","o","n","d","e","/","F","l","o","o","r","p","l","a","n","s","/","q",".","j","p","g">>
      @@ "Property Listing/Le Conde/Facility" :> 
           <<"P","r","o","p","e","r","t","y"," ","L","i","s","t","i","n","g","/","L","e"," ","C","o","n","d","e","/","F","a","c","i","l","i","t","y">>
      @@ "Property Listing/Le Conde/Facility/in" :> 
           <<"P","r","o","p","e","r","t","y"," ","L","i","s","t","i","n","g","/","L","e"," ","C","o","n","d","e","/","F","a","c","i","l","i","t","y","/","i","n">>
      @@ "Property Listing/Le Conde/Facility/in/x.png" :> 
           <<"P","r","o","p","e","r","t","y"," ","L","i","s","t","i","n","g","/","L","e"," ","C","o","n","d","e","/","F","a","c","i","l","i","t","y","/","i","n","/","x",".","p","n","g">>
      @@ "Property Listing/Le Conde/Unit Layout" :> 
           <<"P","r","o","p","e","r","t","y"," ","L","i","s","t","i","n","g","/","L","e"," ","C","o","n","d","e","/","U","n","i","t"," ","L","a","y","o","u","t">>
      @@ "Property Listing/J-Tower 3" :> 
           <<"P","r","o","p","e","r","t","y"," ","L","i","s","t","i","n","g","/","J","-","T","o","w","e","r"," ","3">>
      @@ "Property Listing/J-Tower 3/t.jpeg" :> 
           <<"P","r","o","p","e","r","t","y"," ","L","i","s","t","i","n","g","/","J","-","T","o","w","e","r"," ","3","/","t",".","j","p","e","g">>

\* --root (its default)
root == "Property Listing"

\* The regular files below the root, in directory order (root.rglob("*"))
FileA == "Property Listing/a.jpg"
FileB == "Property Listing/sub/b c.png"
FileLogo == "Property Listing/Logo.png"
FileLogoMain == "Property Listing/logo-main-640w.JPG"
FileText == "Property Listing/n.txt"

RootListing == <<FileA, FileLogo, FileText, FileLogoMain, FileB>>

SeqRange(s) == {s[i] : i \in 1..Len(s)}

\* Path.is_dir()
IsDir(p) == \E f \in SeqRange(RootListing) : PathUnder(Text[f], Text[p])

\* Path.is_file()
IsFile(p) == p \in SeqRange(RootListing)

\* Path.exists()
Exists(p) == IsFile(p) \/ IsDir(p)

HasSupportedExt(p) == StrLower(PathSuffix(Text[p])) \in SUPPORTED_EXT

\* iter_images(dir): the supported image files below dir, in listing order
iter_images(dir) ==
    SelectSeq(RootListing,
              LAMBDA p : PathUnder(Text[p], Text[dir]) /\ IsFile(p) /\ HasSupportedExt(p))

\* iter_images(root), main line 227
ImageList == iter_images(root)

Images == SeqRange(ImageList)

\* git status --porcelain -z -uall: it fails, or it lists paths (entry[3:])
GitFailed == [ok |-> FALSE, entries |-> {}]

GitOut(entries) == [ok |-> TRUE, entries |-> entries]

GitOutputs ==
    { GitFailed,
      GitOut({}),
      GitOut({FileLogo, FileText, "other/z.jpg", "Property Listing/gone.jpg"}),
      GitOut({"Property Listing/sub", FileA}) }

git_changed_images(rootdir, g) ==
    IF ~g.ok THEN {}
    ELSE UNION { IF ~StartsWith(Text[p], Text[rootdir]) THEN {}
                 ELSE IF IsDir(p) THEN SeqRange(iter_images(p))
                 ELSE IF ~HasSupportedExt(p) THEN {}
                 ELSE IF Exists(p) THEN {p}
                 ELSE {} : p \in g.entries }

\* any(token in name for token in SKIP_NAME_TOKENS), name the lower-cased file name
NameHasSkipToken(name) == \E token \in SKIP_NAME_TOKENS : StrContains(name, token)

\* path.name.lower() tested against the tokens, for every path of the model
SkipTokenInName == [p \in DOMAIN Text |-> NameHasSkipToken(StrLower(PathName(Text[p])))]

is_already_watermarked(path) == SkipTokenInName[path]

\* re.search(r"main(?:-\d+w)?\.(jpg|jpeg|png|webp)$", name)
CardVariantMatch(name) ==
    LET main == <<"m","a","i","n">>
    IN \E ext \in SUPPORTED_EXT :
          /\ EndsWith(name, ext)
          /\ LET rest == SubSeq(name, 1, Len(name) - Len(ext))
             IN \/ EndsWith(rest, main)
                \/ /\ EndsWith(rest, <<"w">>)
                   /\ \E i \in 1..(Len(rest) - 2) :
                         /\ rest[i] = "-"
                         /\ \A j \in (i + 1)..(Len(rest) - 1) : rest[j] \in Digits
                         /\ EndsWith(SubSeq(rest, 1, i - 1), main)

\* The pattern searched in path.name.lower(), for every path of the model
CardVariantName == [p \in DOMAIN Text |-> CardVariantMatch(StrLower(PathName(Text[p])))]

is_project_card_variant(path) == CardVariantName[path]

ImageKey == <<"i","m","a","g","e">>

\* --projects-json: the catalog the watermarker reads
WmProjectsJson ==
    JList(<<
      JDict(<< <<ImageKey, JStr(
          <<".","/","P","r","o","p","e","r","t","y","%","2","0","L","i","s","t","i","n","g","/","s","u","b","/","b","%","2","0","c",".","p","n","g">>)>> >>),
      JNum(7),
      JDict(<< <<ImageKey, JStr(<<" "," ">>)>> >>),
      JDict(<< <<ImageKey, JNum(3)>> >>),
      JDict(<< <<<<"n","a","m","e">>, JStr(<<"x">>)>> >>)
    >>)

\* The Paths of the catalog's "image" fields, "./" removed and %20 decoded
load_project_card_images(data) ==
    IF data.t # "list" THEN {}
    ELSE { PathOf(StrReplace(StrReplace(DictGet(data.v[i], ImageKey).v, <<".","/">>, <<>>),
                             <<"%","2","0">>, <<" ">>)) :
             i \in { j \in 1..Len(data.v) :
                       /\ data.v[j].t = "dict"
                       /\ DictGet(data.v[j], ImageKey).t = "str"
                       /\ StrNonBlank(DictGet(data.v[j], ImageKey).v) } }

\* An image file's bytes: the version an outside edit left (v), how many times
\* the watermark was composited onto it since (wm), and whether the file no
\* longer decodes (a truncated write).
ContentOf(v, wm, corrupt) == [v |-> v, wm |-> wm, corrupt |-> corrupt]

\* sha256_file: a digest determined by the bytes, distinct for distinct bytes
sha256_file(c) == <<"sha256", c.v, c.wm, c.corrupt>>

\* the minimum width and height of process_file
MinDim == 300

DimChoices == {<<MinDim, MinDim>>, <<MinDim - 1, MinDim>>, <<MinDim, MinDim - 1>>}

\* Failures the environment can inject while process_file handles one file
Faults == {"none", "open", "save_untouched", "save_truncated"}

\* apply_mark + save_optimized: the re-encoded, watermarked bytes
Watermarked(c) == [c EXCEPT !.wm = @ + 1]

PfResult(result, c, faulted) == [result |-> result, content |-> c, faulted |-> faulted]

\* A size test that also turns away an image of exactly the minimum size
IsSmallInclusive(dim) == dim[1] <= MinDim \/ dim[2] <= MinDim

\* src.width < 300 or src.height < 300
IsSmall(dim) == dim[1] < MinDim \/ dim[2] < MinDim

\* path.relative_to(root_dir.parent).as_posix() if root_dir.parent in
\* path.parents else path.as_posix(), for every path of the model
RelPathOf ==
    [root_dir \in {root}, path \in DOMAIN Text |->
        IF PathParent(Text[root_dir]) \in PathParents(Text[path])
        THEN PathRelativeTo(Text[path], PathParent(Text[root_dir]))
        ELSE Text[path]]

\* rel_path in card_images
InCardImages(path, cards, root_dir) == RelPathOf[root_dir, path] \in cards

\* process_file without the test of the file name at lines 142-143
process_file_any_name(path, dry_run, cards, root_dir, c, dim, fault) ==
    IF InCardImages(path, cards, root_dir) THEN PfResult("skip_project_card", c, FALSE)
    ELSE IF is_project_card_variant(path) THEN PfResult("skip_project_card", c, FALSE)
    ELSE IF c.corrupt THEN PfResult("error", c, FALSE)
    ELSE IF fault = "open" THEN PfResult("error", c, TRUE)
    ELSE IF IsSmall(dim) THEN PfResult("skip_small", c, FALSE)
    ELSE IF dry_run THEN PfResult("processed", c, FALSE)
    ELSE IF fault = "save_untouched" THEN PfResult("error", c, TRUE)
    ELSE IF fault = "save_truncated"
         THEN PfResult("error", [c EXCEPT !.corrupt = TRUE], TRUE)
    ELSE PfResult("processed", Watermarked(c), FALSE)

\* process_file testing the file name before the card rules
process_file_name_first(path, dry_run, cards, root_dir, c, dim, fault) ==
    IF is_already_watermarked(path) THEN PfResult("skip_watermarked_name", c, FALSE)
    ELSE IF InCardImages(path, cards, root_dir) THEN PfResult("skip_project_card", c, FALSE)
    ELSE IF is_project_card_variant(path) THEN PfResult("skip_project_card", c, FALSE)
    ELSE IF c.corrupt THEN PfResult("error", c, FALSE)
    ELSE IF fault = "open" THEN PfResult("error", c, TRUE)
    ELSE IF IsSmall(dim) THEN PfResult("skip_small", c, FALSE)
    ELSE IF dry_run THEN PfResult("processed", c, FALSE)
    ELSE IF fault = "save_untouched" THEN PfResult("error", c, TRUE)
    ELSE IF fault = "save_truncated"
         THEN PfResult("error", [c EXCEPT !.corrupt = TRUE], TRUE)
    ELSE PfResult("processed", Watermarked(c), FALSE)

process_file(path, dry_run, cards, root_dir, c, dim, fault) ==
    IF InCardImages(path, cards, root_dir) THEN PfResult("skip_project_card", c, FALSE)
    ELSE IF is_project_card_variant(path) THEN PfResult("skip_project_card", c, FALSE)
    ELSE IF is_already_watermarked(path) THEN PfResult("skip_watermarked_name", c, FALSE)
    ELSE IF c.corrupt THEN PfResult("error", c, FALSE)
    ELSE IF fault = "open" THEN PfResult("error", c, TRUE)
    ELSE IF IsSmall(dim) THEN PfResult("skip_small", c, FALSE)
    ELSE IF dry_run THEN PfResult("processed", c, FALSE)
    ELSE IF fault = "save_untouched" THEN PfResult("error", c, TRUE)
    ELSE IF fault = "save_truncated"
         THEN PfResult("error", [c EXCEPT !.corrupt = TRUE], TRUE)
    ELSE PfResult("processed", Watermarked(c), FALSE)

\* The manifest file: absent, or the members of the JSON object written
NoFile == [exists |-> FALSE, members |-> {}]

\* json.dumps(manifest), written to the file
DumpManifest(m) == [exists |-> TRUE, members |-> {<<k, m[k]>> : k \in DOMAIN m}]

EmptyManifest == [k \in {} |-> <<>>]

load_manifest(file) ==
    IF ~file.exists THEN EmptyManifest
    ELSE [k \in {mem[1] : mem \in file.members} |->
             (CHOOSE mem \in file.members : mem[1] = k)[2]]

\* manifest.get(key) == current_hash
ManifestHit(m, key, current_hash) == key \in DOMAIN m /\ m[key] = current_hash

\* manifest[key] = h
ManifestPut(m, key, h) == [k \in DOMAIN m \cup {key} |-> IF k = key THEN h ELSE m[k]]

\* Path.as_posix(): the path's text
as_posix(p) == p

CountKeys == {"processed", "skipped_unchanged", "skip_project_card",
              "skip_watermarked_name", "skip_small", "skip_manifest", "error"}

\* changed_set and img_path not in changed_set
NotSelected(changed, img_path) == changed # {} /\ img_path \notin changed

LoopResult(result, m, c, backed, faulted) ==
    [result |-> result, manifest |-> m, content |-> c, backed |-> backed,
     faulted |-> faulted]

\* main without the manifest update of lines 256-257
AfterProcessUnrecorded(r, a, m, key, backed) ==
    LoopResult(r.result, m, r.content, backed, r.faulted)

\* What main records after process_file returned r
AfterProcess(r, a, m, key, backed) ==
    IF r.result = "processed" /\ ~a.dry_run
    THEN LoopResult(r.result, ManifestPut(m, key, sha256_file(r.content)), r.content,
                    backed, r.faulted)
    ELSE LoopResult(r.result, m, r.content, backed, r.faulted)

\* What main does with a selected file whose hash the manifest does not hold
RecordOrProcess(img_path, a, cards, m, c, dim, fault) ==
    IF a.record_only
    THEN LoopResult("skip_manifest", ManifestPut(m, as_posix(img_path), sha256_file(c)), c,
                    FALSE, FALSE)
    ELSE AfterProcess(process_file(img_path, a.dry_run, cards, root, c, dim, fault),
                      a, m, as_posix(img_path), a.backup_dir /\ ~a.dry_run)

\* One pass of main's loop body over img_path that ends without an uncaught
\* exception: the outcome counted, the manifest, the file's bytes, whether a
\* backup copy was made.
main_loop_body(img_path, a, changed, cards, m, c, dim, fault) ==
    IF NotSelected(changed, img_path)
    THEN LoopResult("skipped_unchanged", m, c, FALSE, FALSE)
    ELSE IF ManifestHit(m, as_posix(img_path), sha256_file(c))
    THEN LoopResult("skip_manifest", m, c, FALSE, FALSE)
    ELSE RecordOrProcess(img_path, a, cards, m, c, dim, fault)

\* Line 232 is reached for img_path: sha256_file runs outside any try
ReachesHash(img_path, changed) == ~NotSelected(changed, img_path)

\* Line 243 is reached: shutil.copy2 runs outside any try
ReachesBackup(img_path, a, changed, m, c) ==
    /\ ReachesHash(img_path, changed)
    /\ ~ManifestHit(m, as_posix(img_path), sha256_file(c))
    /\ ~a.record_only
    /\ a.backup_dir /\ ~a.dry_run

(***************************************************************************)
(* State of the watermarker                                                *)
(***************************************************************************)
VARIABLES
    content,        \* the bytes of every image below the root
    dims,           \* the pixel size of every image
    manifest_file,  \* the file at --manifest
    pc,             \* "idle", "loop" (inside main's for loop), "done", "aborted"
    args,           \* the flags of the run
    git,            \* what git status answered in this run
    changed_set,    \* main's changed_set
    card_images,    \* main's card_images
    manifest,       \* main's in-memory manifest
    counts,         \* main's counts
    idx,            \* position of the loop in iter_images(root)
    outcome,        \* per image, the outcome counted in this run ("none": not reached)
    backed_up,      \* the images copied to --backup-dir in this run
    fault_at,       \* the images at which a failure was injected in this run
    start_content,  \* content when the run started
    start_manifest_file, \* manifest_file when the run started
    prev_run,       \* the last completed apply run: what it processed and whether it
                    \* handled every image without an error, kept while no image
                    \* changed and no run aborted since
    compare_to,     \* prev_run when the run started
    events          \* failures injected and outside edits made

wmVars == <<content, dims, manifest_file, pc, args, git, changed_set, card_images,
            manifest, counts, idx, outcome, backed_up, fault_at, start_content,
            start_manifest_file, prev_run, compare_to, events>>

\* Failures and outside edits in one behaviour
MaxEvents == 1

\* The flag combinations of a run.  --backup-dir is read only at line 240 of an
\* apply run that is not record-only; with the other modes it is left unset.
ArgSets == {a \in [dry_run : BOOLEAN, record_only : BOOLEAN, changed_only : BOOLEAN,
                   backup_dir : BOOLEAN] :
               a.backup_dir => ~a.dry_run /\ ~a.record_only}

NoArgs == [dry_run |-> FALSE, record_only |-> FALSE, changed_only |-> FALSE,
           backup_dir |-> FALSE]

ZeroCounts == [k \in CountKeys |-> 0]

NoOutcome == [f \in Images |-> "none"]

\* No completed apply run to compare with
NoPrevRun == [valid |-> FALSE, processed |-> {}, full |-> FALSE]

WmInit ==
    /\ content = [f \in Images |-> ContentOf(0, 0, FALSE)]
    /\ dims \in {d \in [Images -> DimChoices] :
                    \A f \in Images \ {FileA} : d[f] = <<MinDim, MinDim>>}
    /\ manifest_file = NoFile
    /\ pc = "idle"
    /\ args = NoArgs
    /\ git = GitFailed
    /\ changed_set = {}
    /\ card_images = {}
    /\ manifest = EmptyManifest
    /\ counts = ZeroCounts
    /\ idx = 1
    /\ outcome = NoOutcome
    /\ backed_up = {}
    /\ fault_at = {}
    /\ start_content = content
    /\ start_manifest_file = NoFile
    /\ prev_run = NoPrevRun
    /\ compare_to = NoPrevRun
    /\ events = 0

\* git_changed_images(root) for each answer of git status
ChangedSetOf == [g \in GitOutputs |-> git_changed_images(root, g)]

\* load_project_card_images(Path(args.projects_json))
CardImagesOfCatalog == load_project_card_images(WmProjectsJson)

\* main, lines 201-225: the flags are parsed, the catalog, git status and the
\* manifest are read, the counts start at zero.  (The root and the watermark
\* image exist: the run does not exit at lines 205-208.)
StartRun ==
    /\ pc # "loop"
    /\ \E a \in ArgSets, g \in GitOutputs :
          /\ (~a.changed_only => g = GitFailed)
          /\ args' = a
          /\ git' = g
          /\ changed_set' = IF a.changed_only THEN ChangedSetOf[g] ELSE {}
    /\ card_images' = CardImagesOfCatalog
    /\ manifest' = load_manifest(manifest_file)
    /\ counts' = ZeroCounts
    /\ idx' = 1
    /\ outcome' = NoOutcome
    /\ backed_up' = {}
    /\ fault_at' = {}
    /\ start_content' = content
    /\ start_manifest_file' = manifest_file
    /\ compare_to' = prev_run
    /\ pc' = "loop"
    /\ UNCHANGED <<content, dims, manifest_file, prev_run, events>>

InLoop == pc = "loop" /\ idx <= Len(ImageList)

\* main, lines 227-257: one image handled, no uncaught exception
LoopBody ==
    /\ InLoop
    /\ LET img_path == ImageList[idx]
       IN \E fault \in Faults :
            LET r == main_loop_body(img_path, args, changed_set, card_images, manifest,
                                    content[img_path], dims[img_path], fault)
            IN /\ (fault # "none") = r.faulted
               /\ r.faulted => events < MaxEvents
               /\ events' = IF r.faulted THEN events + 1 ELSE events
               /\ fault_at' = IF r.faulted THEN fault_at \cup {img_path} ELSE fault_at
               /\ counts' = [counts EXCEPT ![r.result] = @ + 1]
               /\ outcome' = [outcome EXCEPT ![img_path] = r.result]
               /\ manifest' = r.manifest
               /\ content' = [content EXCEPT ![img_path] = r.content]
               /\ backed_up' = IF r.backed THEN backed_up \cup {img_path} ELSE backed_up
    /\ idx' = idx + 1
    /\ UNCHANGED <<dims, manifest_file, pc, args, git, changed_set, card_images,
                   start_content, start_manifest_file, prev_run, compare_to>>

\* An uncaught exception ends the run: no summary, no manifest written
Abort(img_path) ==
    /\ events < MaxEvents
    /\ events' = events + 1
    /\ fault_at' = fault_at \cup {img_path}
    /\ pc' = "aborted"
    /\ prev_run' = NoPrevRun
    /\ UNCHANGED <<content, dims, manifest_file, args, git, changed_set, card_images,
                   manifest, counts, idx, outcome, backed_up, start_content,
                   start_manifest_file, compare_to>>

\* main, line 232: the file cannot be read when it is hashed
HashRaises ==
    /\ InLoop
    /\ ReachesHash(ImageList[idx], changed_set)
    /\ Abort(ImageList[idx])

\* main, lines 240-243: the backup copy fails
BackupRaises ==
    /\ InLoop
    /\ ReachesBackup(ImageList[idx], args, changed_set, manifest, content[ImageList[idx]])
    /\ Abort(ImageList[idx])

ProcessedNow == {f \in Images : outcome[f] = "processed"}

\* The manifest written without the test of args.dry_run at line 271
WrittenManifestAlways(a, m, file) == DumpManifest(m)

\* What line 272 leaves in the manifest file
WrittenManifest(a, m, file) == IF a.dry_run THEN file ELSE DumpManifest(m)

\* main, lines 259-272: the summary is printed, the manifest is written
FinishRun ==
    /\ pc = "loop"
    /\ idx > Len(ImageList)
    /\ manifest_file' = WrittenManifest(args, manifest, manifest_file)
    /\ prev_run' = IF args.dry_run THEN prev_run
                   ELSE [valid |-> TRUE, processed |-> ProcessedNow,
                         full |-> changed_set = {} /\ \A f \in Images : outcome[f] # "error"]
    /\ pc' = "done"
    /\ UNCHANGED <<content, dims, args, git, changed_set, card_images, manifest, counts,
                   idx, outcome, backed_up, fault_at, start_content, start_manifest_file,
                   compare_to, events>>

\* Between runs somebody replaces an image's bytes; what the last run reported
\* is history
ExternalEdit ==
    /\ pc # "loop"
    /\ events < MaxEvents
    /\ \E f \in Images : content' = [content EXCEPT ![f] = ContentOf(@.v + 1, 0, FALSE)]
    /\ events' = events + 1
    /\ prev_run' = NoPrevRun
    /\ compare_to' = NoPrevRun
    /\ pc' = "idle"
    /\ args' = NoArgs
    /\ git' = GitFailed
    /\ changed_set' = {}
    /\ card_images' = {}
    /\ manifest' = EmptyManifest
    /\ counts' = ZeroCounts
    /\ idx' = 1
    /\ outcome' = NoOutcome
    /\ backed_up' = {}
    /\ fault_at' = {}
    /\ start_content' = content'
    /\ start_manifest_file' = manifest_file
    /\ UNCHANGED <<dims, manifest_file>>

(***************************************************************************)
(* The asset synchronizer: scripts/sync_project_assets.py                  *)
(***************************************************************************)

IMAGE_EXT == {<<".","j","p","g">>, <<".","j","p","e","g">>, <<".","p","n","g">>,
              <<".","w","e","b","p">>}

ASSET_EXT == IMAGE_EXT \cup {<<".","p","d","f">>}

\* EXT_PREFERENCE.get(suffix, 99)
EXT_PREFERENCE(suffix) ==
    CASE suffix = <<".","w","e","b","p">> -> 0
      [] suffix = <<".","j","p","g">> -> 1
      [] suffix = <<".","j","p","e","g">> -> 2
      [] suffix = <<".","p","n","g">> -> 3
      [] OTHER -> 99

\* PROJECT_FOLDER_MAP.get(name): the folder's name, <<>> (None) when unmapped.
\* Three of the table's sixteen entries are modelled.
PROJECT_FOLDER_MAP(name) ==
    CASE name = JStr(<<"L","e"," ","C","o","n","d","e">>) -> <<"L","e"," ","C","o","n","d","e">>
      [] name = JStr(<<"J"," ","T","o","w","e","r"," ","3">>) -> <<"J","-","T","o","w","e","r"," ","3">>
      [] name = JStr(<<"O","d","o","m"," ","T","o","w","e","r">>) -> <<"O","D","O","M"," ","T","o","w","e","r">>
      [] OTHER -> <<>>

\* Characters in code point order (lower-cased text only)
CodePointOrder ==
    <<" ", "%", "(", ")", "-", ".", "/", "0", "1", "2", "3", "4", "5", "6", "7", "8", "9",
      "_", "a", "b", "c", "d", "e", "f", "g", "h", "i", "j", "k", "l", "m", "n", "o", "p",
      "q", "r", "s", "t", "u", "v", "w", "x", "y", "z">>

Ord(c) == CHOOSE i \in 1..Len(CodePointOrder) : CodePointOrder[i] = c

\* a < b for str
StrLess(a, b) ==
    LET n == IF Len(a) < Len(b) THEN Len(a) ELSE Len(b)
        D == {i \in 1..n : a[i] # b[i]}
    IN IF D = {} THEN Len(a) < Len(b)
       ELSE LET i == CHOOSE k \in D : \A j \in D : k <= j
            IN Ord(a[i]) < Ord(b[i])

\* The sort key x.as_posix().lower() of every path, and the paths below it in
\* that order
LowerPath == [p \in DOMAIN Text |-> StrLower(Text[p])]

SortsBefore == [p \in DOMAIN Text |-> {q \in DOMAIN Text : StrLess(LowerPath[q], LowerPath[p])}]

\* sorted(paths, key=lambda x: x.as_posix().lower())
SortByLowerPath(paths) == SortSeq(paths, LAMBDA x, y : x \in SortsBefore[y])

\* urllib.parse.quote(s, safe="/._-()")
QuoteSafe == {"/", ".", "_", "-", "(", ")", "~"} \cup Digits \cup DOMAIN UpperToLower
             \cup {UpperToLower[c] : c \in DOMAIN UpperToLower}

QuoteChar(c) ==
    IF c \in QuoteSafe THEN <<c>>
    ELSE CASE c = " " -> <<"%","2","0">>
           [] c = "%" -> <<"%","2","5">>
           [] c = "&" -> <<"%","2","6">>

RECURSIVE quote(_)
quote(s) == IF s = <<>> THEN <<>> ELSE QuoteChar(s[1]) \o quote(Tail(s))

urlize(path) == <<".","/">> \o quote(path)

\* urlize(Path(p.as_posix())) of every path
UrlOf == [p \in DOMAIN Text |-> urlize(Text[p])]

\* dedupe_prefer's stem_key of every path
StemKeyOf ==
    [p \in DOMAIN Text |->
        StrLower(PathParent(Text[p])) \o <<"/">> \o StrStrip(StrLower(PathStem(Text[p])))]

StemKey(p) == StemKeyOf[p]

\* p.suffix.lower() of every path
LowerSuffix == [p \in DOMAIN Text |-> StrLower(PathSuffix(Text[p]))]

\* dedupe_prefer's rank of every path
ExtRankOf == [p \in DOMAIN Text |-> EXT_PREFERENCE(LowerSuffix[p])]

ExtRank(p) == ExtRankOf[p]

\* p.parent and p.parents of every path
ParentOf == [p \in DOMAIN Text |-> PathParent(Text[p])]

ParentsOf == [p \in DOMAIN Text |-> PathParents(Text[p])]

\* The loop of dedupe_prefer: selected as the sequence of its <<stem_key, path>> items
RECURSIVE DedupeLoop(_, _)
DedupeLoop(paths, selected) ==
    IF paths = <<>> THEN selected
    ELSE LET p == Head(paths)
             hit == {i \in 1..Len(selected) : selected[i][1] = StemKey(p)}
         IN IF hit = {}
            THEN DedupeLoop(Tail(paths), Append(selected, <<StemKey(p), p>>))
            ELSE LET i == CHOOSE k \in hit : TRUE
                 IN IF ExtRank(p) < ExtRank(selected[i][2])
                    THEN DedupeLoop(Tail(paths),
                                    [selected EXCEPT ![i] = <<StemKey(p), p>>])
                    ELSE DedupeLoop(Tail(paths), selected)

dedupe_prefer(paths) ==
    LET selected == DedupeLoop(paths, <<>>)
    IN SortByLowerPath([i \in 1..Len(selected) |-> selected[i][2]])

\* A set of paths as a sequence in some order (the order of a directory scan)
RECURSIVE SeqOfSet(_)
SeqOfSet(S) ==
    IF S = {} THEN <<>>
    ELSE LET x == CHOOSE y \in S : TRUE IN <<x>> \o SeqOfSet(S \ {x})

DirExists(fs, d) == \E p \in fs.dirs : Text[p] = d

\* list_images(path): the asset files anywhere below path
list_images(fs, path) ==
    IF ~DirExists(fs, path) THEN <<>>
    ELSE dedupe_prefer(SortByLowerPath(SeqOfSet(
             {p \in fs.files : path \in ParentsOf[p] /\ LowerSuffix[p] \in ASSET_EXT})))

\* list_top_level_images(path): the image files directly in path
list_top_level_images(fs, path) ==
    IF ~DirExists(fs, path) THEN <<>>
    ELSE dedupe_prefer(SortByLowerPath(SeqOfSet(
             {p \in fs.files : ParentOf[p] = path /\ LowerSuffix[p] \in IMAGE_EXT})))

(***************************************************************************)
(* json.dumps / json.loads of the catalog: the file holds the text as its  *)
(* sequence of tokens (white space, commas and colons left out).           *)
(***************************************************************************)

Tok(k) == [k |-> k, v |-> <<>>]

TokStr(chars) == [k |-> "str", v |-> chars]

TokNum(n) == [k |-> "num", v |-> n]

RECURSIVE JsonDumps(_)
JsonDumps(val) ==
    LET RECURSIVE DumpItems(_)
        DumpItems(items) ==
            IF items = <<>> THEN <<>>
            ELSE JsonDumps(Head(items)) \o DumpItems(Tail(items))
        RECURSIVE DumpMembers(_)
        DumpMembers(members) ==
            IF members = <<>> THEN <<>>
            ELSE <<TokStr(Head(members)[1])>> \o JsonDumps(Head(members)[2])
                 \o DumpMembers(Tail(members))
    IN CASE val.t = "str" -> <<TokStr(val.v)>>
         [] val.t = "num" -> <<TokNum(val.v)>>
         [] val.t = "list" -> <<Tok("[")>> \o DumpItems(val.v) \o <<Tok("]")>>
         [] val.t = "dict" -> <<Tok("{")>> \o DumpMembers(val.v) \o <<Tok("}")>>

\* The parsers return the value read and the tokens left
Parsed(val, rest) == [val |-> val, rest |-> rest]

RECURSIVE ParseValue(_)
RECURSIVE ParseItems(_, _)
RECURSIVE ParseMembers(_, _)

ParseValue(toks) ==
    CASE Head(toks).k = "str" -> Parsed(JStr(Head(toks).v), Tail(toks))
      [] Head(toks).k = "num" -> Parsed(JNum(Head(toks).v), Tail(toks))
      [] Head(toks).k = "[" -> ParseItems(Tail(toks), <<>>)
      [] Head(toks).k = "{" -> ParseMembers(Tail(toks), JDict(<<>>))

ParseItems(toks, acc) ==
    IF Head(toks).k = "]" THEN Parsed(JList(acc), Tail(toks))
    ELSE LET r == ParseValue(toks) IN ParseItems(r.rest, Append(acc, r.val))

ParseMembers(toks, acc) ==
    IF Head(toks).k = "}" THEN Parsed(acc, Tail(toks))
    ELSE LET r == ParseValue(Tail(toks))
         IN ParseMembers(r.rest, DictSet(acc, Head(toks).v, r.val))

JsonLoads(toks) == ParseValue(toks).val

(***************************************************************************)
(* main of the synchronizer                                                *)
(***************************************************************************)

NameKey == <<"n","a","m","e">>
ImagesKey == <<"i","m","a","g","e","s">>
FloorPlansKey == <<"f","l","o","o","r","P","l","a","n","s">>
FacilitiesKey == <<"f","a","c","i","l","i","t","i","e","s">>
UnitLayoutsKey == <<"u","n","i","t","L","a","y","o","u","t","s">>

\* str(project.get("image", ""))
MainImageOf(project) ==
    LET image == DictGetOr(project, ImageKey, JStr(<<>>))
    IN IF image.t = "str" THEN image.v ELSE <<"?">>

UrlList(paths) == [i \in 1..Len(paths) |-> JStr(UrlOf[paths[i]])]

\* A gallery that keeps the main image
GalleryWithMain(paths, main_image) == UrlList(paths)

\* The gallery loop, lines 93-99: the main image is left out
RECURSIVE GalleryOf(_, _)
GalleryOf(paths, main_image) ==
    IF paths = <<>> THEN <<>>
    ELSE LET entry == UrlOf[Head(paths)]
         IN IF entry = main_image THEN GalleryOf(Tail(paths), main_image)
            ELSE <<JStr(entry)>> \o GalleryOf(Tail(paths), main_image)

\* The four arrays compared at lines 111-130
ArraysOf(project) ==
    <<DictGetOr(project, ImagesKey, JList(<<>>)),
      DictGetOr(project, FloorPlansKey, JList(<<>>)),
      DictGetOr(project, FacilitiesKey, JList(<<>>)),
      DictGetOr(project, UnitLayoutsKey, JList(<<>>))>>

\* Equality of two JSON values of possibly different types
JEq(a, b) == a.t = b.t /\ a.v = b.v

ArraysEq(x, y) == \A i \in 1..4 : JEq(x[i], y[i])

\* root / folder_name, or <<>> when the loop skips the project at line 87 or 90
ProjectDirOf(fs, rootdir, project) ==
    LET folder_name == PROJECT_FOLDER_MAP(DictGet(project, NameKey))
    IN IF folder_name = <<>> THEN <<>>
       ELSE IF ~DirExists(fs, PathJoin(rootdir, folder_name)) THEN <<>>
       ELSE PathJoin(rootdir, folder_name)

\* floor_dir, lines 101-103
FloorDirOf(fs, project_dir) ==
    IF DirExists(fs, PathJoin(project_dir, <<"F","l","o","o","r"," ","P","l","a","n">>))
    THEN PathJoin(project_dir, <<"F","l","o","o","r"," ","P","l","a","n">>)
    ELSE PathJoin(project_dir, <<"F","l","o","o","r","p","l","a","n","s">>)

\* The gallery appended to the "images" array the entry already has
RefreshedExtending(fs, project, project_dir) ==
    DictSet(DictSet(DictSet(DictSet(project,
        ImagesKey, JList(DictGetOr(project, ImagesKey, JList(<<>>)).v
                         \o GalleryOf(list_top_level_images(fs, project_dir),
                                      MainImageOf(project)))),
        FloorPlansKey, JList(UrlList(list_images(fs, FloorDirOf(fs, project_dir))))),
        FacilitiesKey, JList(UrlList(list_images(fs, PathJoin(project_dir, <<"F","a","c","i","l","i","t","y">>))))),
        UnitLayoutsKey, JList(UrlList(list_images(fs, PathJoin(project_dir, <<"U","n","i","t"," ","L","a","y","o","u","t">>)))))

\* Lines 119-122: the four arrays are replaced
Refreshed(fs, project, project_dir) ==
    DictSet(DictSet(DictSet(DictSet(project,
        ImagesKey, JList(GalleryOf(list_top_level_images(fs, project_dir),
                                   MainImageOf(project)))),
        FloorPlansKey, JList(UrlList(list_images(fs, FloorDirOf(fs, project_dir))))),
        FacilitiesKey, JList(UrlList(list_images(fs, PathJoin(project_dir, <<"F","a","c","i","l","i","t","y">>))))),
        UnitLayoutsKey, JList(UrlList(list_images(fs, PathJoin(project_dir, <<"U","n","i","t"," ","L","a","y","o","u","t">>)))))

\* One pass of the loop body, lines 83-132, over one project
SyncProject(fs, rootdir, project) ==
    IF ProjectDirOf(fs, rootdir, project) = <<>> THEN project
    ELSE Refreshed(fs, project, ProjectDirOf(fs, rootdir, project))

\* The loop of main over data: the projects after it
SyncData(fs, rootdir, data) ==
    JList([i \in 1..Len(data.v) |-> SyncProject(fs, rootdir, data.v[i])])

\* changes: the projects whose four arrays differ after the refresh
SyncChanges(data, after) ==
    Cardinality({i \in 1..Len(data.v) : ~ArraysEq(ArraysOf(data.v[i]), ArraysOf(after.v[i]))})

(***************************************************************************)
(* State of the synchronizer                                               *)
(***************************************************************************)
VARIABLES
    fs,            \* the folder tree below the root: its files and directories
    catalog_file,  \* the text of data/projects.json
    sync_pc,       \* "idle", or "ran" right after a run of the synchronizer
    sync_dry,      \* --dry-run of the last run
    sync_read,     \* data as the last run parsed it
    sync_after,    \* data when the last run's loop ended
    sync_changes,  \* changes as the last run reported it
    sync_rerun,    \* the last run started with the tree as the previous apply run left it
    fs_clean,      \* the tree has not changed since the last apply run
    fs_changes     \* changes made to the tree

syncVars == <<fs, catalog_file, sync_pc, sync_dry, sync_read, sync_after, sync_changes,
              sync_rerun, fs_clean, fs_changes>>

\* Changes to the folder tree in one behaviour
MaxFsChanges == 1

LeConde == "Property Listing/Le Conde"
JTower == "Property Listing/J-Tower 3"

SyncFiles == {"Property Listing/Le Conde/main.jpg", "Property Listing/Le Conde/a.jpg", "Property Listing/Le Conde/a.webp", "Property Listing/Le Conde/c d.PNG", "Property Listing/Le Conde/notes.txt",
              "Property Listing/Le Conde/Floor Plan/p.pdf", "Property Listing/Le Conde/Floorplans/q.jpg", "Property Listing/Le Conde/Facility/in/x.png",
              "Property Listing/J-Tower 3/t.jpeg"}

SyncDirs == {root, LeConde, JTower, "Property Listing/Le Conde/Floor Plan", "Property Listing/Le Conde/Floorplans", "Property Listing/Le Conde/Facility",
             "Property Listing/Le Conde/Facility/in", "Property Listing/Le Conde/Unit Layout"}

\* The directories of the model above p
DirsAbove(p) == {d \in SyncDirs : Text[d] \in ParentsOf[p]}

Fs(files, dirs) == [files |-> files, dirs |-> dirs]

\* A folder with three top-level images, one of them the main image
FsThree == Fs({"Property Listing/Le Conde/main.jpg", "Property Listing/Le Conde/a.jpg", "Property Listing/Le Conde/c d.PNG"}, {root, LeConde})

\* A folder with two images of one stem, and sub-folders
FsStems == Fs({"Property Listing/Le Conde/main.jpg", "Property Listing/Le Conde/a.jpg", "Property Listing/Le Conde/a.webp", "Property Listing/Le Conde/Floorplans/q.jpg",
               "Property Listing/Le Conde/Facility/in/x.png"},
              {root, LeConde, "Property Listing/Le Conde/Floorplans", "Property Listing/Le Conde/Facility", "Property Listing/Le Conde/Facility/in"})

CatalogOne ==
    JList(<<
      JDict(<< <<NameKey, JStr(<<"L","e"," ","C","o","n","d","e">>)>>,
               <<ImageKey, JStr(
                   <<".","/","P","r","o","p","e","r","t","y","%","2","0","L","i","s","t","i","n","g","/","L","e","%","2","0","C","o","n","d","e","/","m","a","i","n",".","j","p","g">>)>>,
               <<<<"p","r","i","c","e">>, JNum(5)>>,
               <<ImagesKey, JList(<<JStr(<<".","/","s","t","a","l","e",".","j","p","g">>)>>)>>,
               <<FloorPlansKey, JList(<<>>)>> >>),
      JDict(<< <<NameKey, JStr(<<"N","o","w","h","e","r","e">>)>>,
               <<ImageKey, JStr(<<".","/","x",".","j","p","g">>)>>,
               <<ImagesKey, JList(<<JStr(<<".","/","x",".","j","p","g">>)>>)>> >>),
      JDict(<< <<ImagesKey, JList(<<JStr(<<".","/","o","l","d",".","j","p","g">>)>>)>>,
               <<NameKey, JStr(<<"J"," ","T","o","w","e","r"," ","3">>)>>,
               <<ImageKey, JStr(
                   <<".","/","P","r","o","p","e","r","t","y","%","2","0","L","i","s","t","i","n","g","/","J","-","T","o","w","e","r","%","2","0","3","/","t",".","j","p","e","g">>)>> >>)
    >>)

CatalogTwo ==
    JList(<<
      JDict(<< <<NameKey, JStr(<<"L","e"," ","C","o","n","d","e">>)>> >>),
      JDict(<< <<NameKey, JStr(<<"J"," ","T","o","w","e","r"," ","3">>)>>,
               <<ImageKey, JNum(7)>>,
               <<ImagesKey, JList(<<>>)>> >>)
    >>)

SyncInit ==
    /\ fs \in {FsThree, FsStems}
    /\ catalog_file \in {JsonDumps(CatalogOne), JsonDumps(CatalogTwo)}
    /\ sync_pc = "idle"
    /\ sync_dry = FALSE
    /\ sync_read = JList(<<>>)
    /\ sync_after = JList(<<>>)
    /\ sync_changes = 0
    /\ sync_rerun = FALSE
    /\ fs_clean = FALSE
    /\ fs_changes = 0

\* What line 138 leaves in the catalog file
WrittenCatalog(dry_run, after, file) == IF dry_run THEN file ELSE JsonDumps(after)

\* main of the synchronizer, lines 71-139
SyncRun ==
    /\ LET data == JsonLoads(catalog_file)
           after == SyncData(fs, Text[root], data)
       IN /\ sync_read' = data
          /\ sync_after' = after
          /\ sync_changes' = SyncChanges(data, after)
          /\ \E dry_run \in BOOLEAN :
                /\ sync_dry' = dry_run
                /\ catalog_file' = WrittenCatalog(dry_run, after, catalog_file)
                /\ fs_clean' = (fs_clean \/ ~dry_run)
    /\ sync_rerun' = fs_clean
    /\ sync_pc' = "ran"
    /\ UNCHANGED <<fs, fs_changes>>

FsChange(newfs) ==
    /\ fs_changes < MaxFsChanges
    /\ fs' = newfs
    /\ fs_changes' = fs_changes + 1
    /\ fs_clean' = FALSE
    /\ sync_pc' = "idle"
    /\ UNCHANGED <<catalog_file, sync_dry, sync_read, sync_after, sync_changes, sync_rerun>>

\* Somebody adds a file (and the folders above it)
AddFile ==
    \E f \in SyncFiles \ fs.files : FsChange(Fs(fs.files \cup {f}, fs.dirs \cup DirsAbove(f)))

\* Somebody deletes a file
RemoveFile ==
    \E f \in fs.files : FsChange(Fs(fs.files \ {f}, fs.dirs))

\* Somebody creates an empty folder
MakeDir ==
    \E d \in SyncDirs \ fs.dirs : FsChange(Fs(fs.files, fs.dirs \cup {d} \cup DirsAbove(d)))

\* Somebody deletes a folder and what is below it
RemoveDir ==
    \E d \in fs.dirs \ {root} :
        FsChange(Fs({f \in fs.files : Text[d] \notin ParentsOf[f]},
                    {e \in fs.dirs : e # d /\ Text[d] \notin ParentsOf[e]}))

(***************************************************************************)
(* The specifications: the two scripts share no state and run apart        *)
(***************************************************************************)

vars == <<wmVars, syncVars>>

\* The synchronizer at rest
SyncQuiet == SyncInit /\ fs = FsThree /\ catalog_file = JsonDumps(CatalogOne)

\* The watermarker at rest
WmQuiet == WmInit /\ dims = [f \in Images |-> <<MinDim, MinDim>>]

Init == WmInit /\ SyncQuiet

SyncStart == SyncInit /\ WmQuiet

Next ==
    \/ StartRun /\ UNCHANGED syncVars
    \/ LoopBody /\ UNCHANGED syncVars
    \/ HashRaises /\ UNCHANGED syncVars
    \/ BackupRaises /\ UNCHANGED syncVars
    \/ FinishRun /\ UNCHANGED syncVars
    \/ ExternalEdit /\ UNCHANGED syncVars

\* The watermarker
Spec == Init /\ [][Next]_vars

SyncNext ==
    \/ SyncRun /\ UNCHANGED wmVars
    \/ AddFile /\ UNCHANGED wmVars
    \/ RemoveFile /\ UNCHANGED wmVars
    \/ MakeDir /\ UNCHANGED wmVars
    \/ RemoveDir /\ UNCHANGED wmVars

\* The synchronizer
SyncSpec == SyncStart /\ [][SyncNext]_vars

(***************************************************************************)
(* Properties of the watermarker                                           *)
(***************************************************************************)

\* The run has counted an outcome for f
Counted(f) == outcome[f] # "none"

\* The manifest the run loaded holds the hash f had when the run started
HeldAtStart(f) ==
    ManifestHit(load_manifest(start_manifest_file), as_posix(f), sha256_file(start_content[f]))

\* f is a project card image: listed in the catalog, or named as a card variant
IsCard(f) == InCardImages(f, CardImagesOfCatalog, root) \/ is_project_card_variant(f)

\* The run hands f to process_file
HandedToProcessFile(f) ==
    ~NotSelected(changed_set, f) /\ ~HeldAtStart(f) /\ ~args.record_only

\* f's entry in a manifest file (<<>> when it has none)
EntryIn(file, f) ==
    IF as_posix(f) \in DOMAIN load_manifest(file) THEN load_manifest(file)[as_posix(f)]
    ELSE <<>>

\* C1 as stated: after a completed apply run, with no image changed since the
\* previous completed apply run, no file is processed, every file the previous
\* run processed is counted as skip_manifest, and no image byte is rewritten.
C1_AsStated ==
    (pc = "done" /\ ~args.dry_run /\ compare_to.valid) =>
        /\ \A f \in Images : outcome[f] # "processed"
        /\ \A f \in compare_to.processed : outcome[f] = "skip_manifest"
        /\ content = start_content

\* C1 amended: every file the previous completed apply run processed is counted
\* as skip_manifest, or as skipped_unchanged when the re-run is changed-only,
\* and keeps its bytes; and when the previous run handled every image (no
\* changed-only restriction) without an error, the re-run processes nothing.
C1_RerunSkipsProcessed ==
    (pc = "done" /\ ~args.dry_run /\ compare_to.valid) =>
        /\ \A f \in compare_to.processed :
              /\ outcome[f] \in {"skip_manifest", "skipped_unchanged"}
              /\ content[f] = start_content[f]
        /\ compare_to.full => \A f \in Images : outcome[f] # "processed"

C1_Witness ==
    /\ pc = "done" /\ ~args.dry_run /\ compare_to.valid /\ compare_to.full
    /\ FileA \in compare_to.processed
    /\ outcome[FileA] = "skip_manifest"

\* C2 as stated: an image whose name holds a skip token is always counted as
\* skip_watermarked_name and keeps its bytes.
C2_AsStated ==
    \A f \in Images :
        (is_already_watermarked(f) /\ Counted(f)) =>
            outcome[f] = "skip_watermarked_name" /\ content[f] = start_content[f]

\* C2 amended: such an image keeps its bytes and is never processed; it is
\* counted as skip_watermarked_name unless the run skips it earlier, as
\* skipped_unchanged (changed-only), as skip_manifest (its hash is in the
\* manifest, or the run is record-only) or as skip_project_card (a card rule
\* matches too).
C2_SkipTokenNeverProcessed ==
    \A f \in Images :
        (is_already_watermarked(f) /\ Counted(f)) =>
            /\ content[f] = start_content[f]
            /\ outcome[f] = IF NotSelected(changed_set, f) THEN "skipped_unchanged"
                            ELSE IF HeldAtStart(f) \/ args.record_only THEN "skip_manifest"
                            ELSE IF IsCard(f) THEN "skip_project_card"
                            ELSE "skip_watermarked_name"

C2_Witness ==
    /\ pc = "done" /\ ~args.dry_run /\ args.backup_dir
    /\ outcome[FileLogo] = "skip_watermarked_name"
    /\ FileLogo \in backed_up

\* C3 as stated: a project card image is always counted as skip_project_card.
C3_AsStated ==
    \A f \in Images : (IsCard(f) /\ Counted(f)) => outcome[f] = "skip_project_card"

\* C3 amended: a project card image keeps its bytes and is never processed; it
\* is counted as skip_project_card, whatever its name or size, unless the run
\* skips it before process_file: as skipped_unchanged (changed-only) or as
\* skip_manifest (its hash is in the manifest, or the run is record-only).
C3_CardNeverProcessed ==
    \A f \in Images :
        (IsCard(f) /\ Counted(f)) =>
            /\ content[f] = start_content[f]
            /\ outcome[f] = IF NotSelected(changed_set, f) THEN "skipped_unchanged"
                            ELSE IF HeldAtStart(f) \/ args.record_only THEN "skip_manifest"
                            ELSE "skip_project_card"

C3_Witness ==
    /\ pc = "done"
    /\ outcome[FileB] = "skip_project_card"
    /\ outcome[FileLogoMain] = "skip_project_card"
    /\ is_already_watermarked(FileLogoMain)

\* C4 as stated: a failure while one file is handled is counted as one error
\* for that file and never ends the run.
C4_AsStated ==
    \A f \in fault_at : pc # "aborted" /\ outcome[f] = "error"

\* C5 as stated: in changed-only mode, when git status succeeded, only the
\* images it reported get past line 230; every other image is counted as
\* skipped_unchanged.
C5_AsStated ==
    (args.changed_only /\ git.ok) =>
        \A f \in Images :
            Counted(f) => (outcome[f] = "skipped_unchanged") = (f \notin ChangedSetOf[git])

\* C8 as stated: a file's entry in the manifest file changes only when the file
\* was processed in a run that is not a dry run.
C8_AsStated ==
    \A f \in Images :
        EntryIn(manifest_file, f) # EntryIn(start_manifest_file, f) =>
            outcome[f] = "processed" /\ ~args.dry_run

\* C8 amended: a file's entry in the manifest file changes only at the end of
\* a completed run that is not a dry run, and only for a file the run processed
\* or, in a record-only run, a selected file whose hash the manifest did not hold.
C8_ManifestEntryChanges ==
    /\ pc \in {"loop", "aborted"} => manifest_file = start_manifest_file
    /\ \A f \in Images :
          EntryIn(manifest_file, f) # EntryIn(start_manifest_file, f) =>
              /\ pc = "done" /\ ~args.dry_run
              /\ \/ outcome[f] = "processed"
                 \/ /\ args.record_only /\ outcome[f] = "skip_manifest"
                    /\ ~NotSelected(changed_set, f) /\ ~HeldAtStart(f)
              /\ EntryIn(manifest_file, f) = sha256_file(content[f])

C8_Witness ==
    /\ pc = "done" /\ ~args.dry_run /\ ~args.record_only
    /\ outcome[FileA] = "processed"
    /\ outcome[FileLogo] = "skip_watermarked_name"
    /\ EntryIn(manifest_file, FileA) # EntryIn(start_manifest_file, FileA)
    /\ EntryIn(manifest_file, FileLogo) = <<>>

\* C9: an image that no other rule skips and whose handling raises nothing is
\* processed when its width and height are both at least 300, and is counted as
\* skip_small, its bytes unchanged, when either is below 300.
C9_MinimumDimension ==
    \A f \in Images :
        (/\ Counted(f) /\ HandedToProcessFile(f)
         /\ ~IsCard(f) /\ ~is_already_watermarked(f)
         /\ ~start_content[f].corrupt /\ f \notin fault_at) =>
            IF dims[f][1] >= 300 /\ dims[f][2] >= 300
            THEN outcome[f] = "processed"
            ELSE outcome[f] = "skip_small" /\ content[f] = start_content[f]

C9_Witness ==
    /\ Counted(FileA) /\ HandedToProcessFile(FileA) /\ FileA \notin fault_at
    /\ dims[FileA] = <<300, 300>>
    /\ outcome[FileA] = "processed"
    /\ ~args.dry_run

C9_WitnessSmall ==
    /\ Counted(FileA) /\ HandedToProcessFile(FileA) /\ FileA \notin fault_at
    /\ dims[FileA] = <<299, 300>>
    /\ outcome[FileA] = "skip_small"

\* C10 as stated: the watermark is never composited twice onto the same bytes:
\* between two compositions an outside edit replaced the file.
C10_AsStated ==
    \A f \in Images : content[f].wm <= 1

(***************************************************************************)
(* Properties of the synchronizer                                          *)
(***************************************************************************)

\* The projects of the last run whose folder is mapped and exists
Refreshable ==
    {i \in 1..Len(sync_read.v) : ProjectDirOf(fs, Text[root], sync_read.v[i]) # <<>>}

\* The image files directly in project i's folder
TopLevelImages(i) ==
    {p \in fs.files : /\ ParentOf[p] = ProjectDirOf(fs, Text[root], sync_read.v[i])
                      /\ LowerSuffix[p] \in IMAGE_EXT}

\* The "images" array project i has after the run, and the URLs in it
ImagesAfter(i) == DictGet(sync_after.v[i], ImagesKey).v

UrlsAfter(i) == {ImagesAfter(i)[k].v : k \in 1..Len(ImagesAfter(i))}

IsMainImage(i, p) == UrlOf[p] = MainImageOf(sync_read.v[i])

\* Another top-level image of the same stem is preferred to p: its extension
\* ranks better, or ranks the same and it sorts first
Outranked(i, p) ==
    \E q \in TopLevelImages(i) \ {p} :
        /\ StemKey(q) = StemKey(p)
        /\ \/ ExtRank(q) < ExtRank(p)
           \/ ExtRank(q) = ExtRank(p) /\ q \in SortsBefore[p]

\* C6 as stated: the rebuilt "images" array never holds the main image URL and
\* holds the URL of every other top-level image of the folder; three top-level
\* images, one of them the main image, give an array of length 2.
C6_AsStated ==
    sync_pc = "ran" =>
        \A i \in Refreshable :
            /\ MainImageOf(sync_read.v[i]) \notin UrlsAfter(i)
            /\ \A p \in TopLevelImages(i) : ~IsMainImage(i, p) => UrlOf[p] \in UrlsAfter(i)
            /\ (/\ Cardinality(TopLevelImages(i)) = 3
                /\ \E p \in TopLevelImages(i) : IsMainImage(i, p)) => Len(ImagesAfter(i)) = 2

\* C6 amended: the rebuilt "images" array never holds the main image URL and
\* holds, once each, the URL of every other top-level image that is the
\* preferred file of its lower-cased stem (webp before jpg before jpeg before
\* png), and nothing else; three top-level images of three different stems, one
\* of them the main image, give an array of length 2.
C6_GalleryIsDedupedFolder ==
    sync_pc = "ran" =>
        \A i \in Refreshable :
            /\ MainImageOf(sync_read.v[i]) \notin UrlsAfter(i)
            /\ UrlsAfter(i) = {UrlOf[p] : p \in {q \in TopLevelImages(i) :
                                                   ~IsMainImage(i, q) /\ ~Outranked(i, q)}}
            /\ Len(ImagesAfter(i)) = Cardinality(UrlsAfter(i))
            /\ (/\ Cardinality(TopLevelImages(i)) = 3
                /\ \A p \in TopLevelImages(i) : ~Outranked(i, p)
                /\ \E p \in TopLevelImages(i) : IsMainImage(i, p)) => Len(ImagesAfter(i)) = 2

C6_Witness ==
    /\ sync_pc = "ran"
    /\ \E i \in Refreshable :
          /\ Cardinality(TopLevelImages(i)) = 3
          /\ \A p \in TopLevelImages(i) : ~Outranked(i, p)
          /\ \E p \in TopLevelImages(i) : IsMainImage(i, p)
          /\ Len(ImagesAfter(i)) = 2

C6_WitnessDeduped ==
    /\ sync_pc = "ran"
    /\ \E i \in Refreshable : \E p \in TopLevelImages(i) :
          Outranked(i, p) /\ UrlOf[p] \notin UrlsAfter(i) /\ ImagesAfter(i) # <<>>

\* C7: a run that starts with the folder tree as the previous apply run left
\* it reports 0 changed entries, and the catalog file then parses to the very
\* structure the run read.
C7_SecondRunChangesNothing ==
    (sync_pc = "ran" /\ sync_rerun) =>
        /\ sync_changes = 0
        /\ JsonDumps(sync_read) = catalog_file
        /\ JsonLoads(catalog_file) = sync_read

C7_Witness ==
    /\ sync_pc = "ran" /\ sync_rerun /\ ~sync_dry
    /\ Refreshable # {}
    /\ \E i \in Refreshable : ImagesAfter(i) # <<>>
    /\ \E i \in 1..Len(sync_read.v) : i \notin Refreshable

====
